---- MODULE Spec2Model ----
(***************************************************************************)
(* Crime Assist Bot (src/bot.py): the conversation router.                 *)
(*                                                                         *)
(* Updates arrive in the application's update queue and are handed, one    *)
(* by one, to the handler registered for their kind: start (the /start     *)
(* command), button_router (a callback query) or handle_text (a text       *)
(* message).  A handler is a coroutine: it runs atomically from one        *)
(* await of a transport call to the next.  ask_gemini and requests.get     *)
(* contain no await of their own, so they run inside the segment that      *)
(* calls them.  Each action below is one such segment.                     *)
(***************************************************************************)
EXTENDS Integers, Sequences, FiniteSets, TLC

(* ---------------- bounds of the model ---------------- *)
MaxEvents == 2         \* updates received in Spec
MaxFlowEvents == 4     \* updates received in SpecFlow
MaxErrorEvents == 2    \* updates received in SpecError
MaxErrorFailures == 2  \* calls that raise in SpecError
MaxAskEvents == 3      \* updates received in SpecAsk
MaxStartupEvents == 2  \* updates received in SpecStartup
MaxPath == 3           \* user events on the way back to the main menu
MaxConcurrentEvents == 3 \* updates received in SpecConcurrent
MaxRetryEvents == 4    \* updates received in SpecRetry
MaxFailures == 1       \* transport calls and audit store writes that raise

(* ---------------- constants of the program ---------------- *)
Users == {1, 2}
Topics == {"cyber", "fraud"}
Absent == "<absent>"
NoTopic == "<none>"

RenderTokens == {"menu_faq", "menu_tools", "menu_emergency", "back_to_main"}
ToolTokens == {"tool_ip", "tool_hash"}
FaqTokens == {"faq_cyber", "faq_fraud"}
UnknownTokens == {"bogus"}
Tokens == RenderTokens \cup ToolTokens \cup FaqTokens \cup UnknownTokens

(* choice.startswith('faq_') and choice.split('_',1)[1], on the tokens above *)
startswith_faq(choice) == choice \in FaqTokens \cup {"faq_ipc"}
(* choice.split('_', 1)[1] replaced by the whole of choice *)
split_topic_whole(choice) == choice

split_topic(choice) ==
    CASE choice = "faq_cyber" -> "cyber"
      [] choice = "faq_fraud" -> "fraud"
      [] choice = "faq_ipc" -> "ipc"
      [] OTHER -> choice

(* What generate_content can do: return a text, or raise an exception     *)
(* whose description str(e) is error, a sequence of characters.           *)
Char(k) == CASE k % 3 = 1 -> "a" [] k % 3 = 2 -> "b" [] OTHER -> "c"
Description(n) == [k \in 1..n |-> Char(k)]
GeminiText == [ok |-> TRUE, error |-> <<>>]
GeminiError(n) == [ok |-> FALSE, error |-> Description(n)]
GeminiOutcomes == {GeminiText, GeminiError(3)}

(* What requests.get(ip_api).json() can do: raise (no connection, a body  *)
(* that is not JSON), or return a payload; a key the payload lacks is     *)
(* Absent.                                                                *)
IpResponse(raised, status, message, query, city, regionName, country, isp) ==
    [raised |-> raised, status |-> status, message |-> message, query |-> query,
     city |-> city, regionName |-> regionName, country |-> country, isp |-> isp]
IpRaised == IpResponse(TRUE, Absent, Absent, Absent, Absent, Absent, Absent, Absent)
IpSuccess == IpResponse(FALSE, "success", Absent, "8.8.8.8", "Ashburn", "Virginia", "United States", "Google LLC")
IpFail == IpResponse(FALSE, "fail", "invalid query", "x", Absent, Absent, Absent, Absent)
IpNoIsp == IpResponse(FALSE, "success", Absent, "8.8.8.8", "Ashburn", "Virginia", "United States", Absent)
IpNoMessage == IpResponse(FALSE, "fail", Absent, Absent, Absent, Absent, Absent, Absent)
IpNoStatus == IpResponse(FALSE, Absent, Absent, Absent, Absent, Absent, Absent, Absent)
IpOutcomes == {IpRaised, IpSuccess, IpFail, IpNoIsp, IpNoMessage, IpNoStatus}

VARIABLES
    env,                  \* which of the three environment variables are set
    phase,                \* how far the process has got: start-up, serving, exited
    events,               \* every update received so far, in arrival order
    tasks,                \* tasks[i]: the handling of events[i]
    user_data,            \* context.user_data of each user
    firebase_initialized, \* module flag set by the start-up try/except
    interactions,         \* the 'interactions' collection of the audit store
    console,              \* lines printed by log_interaction and error_handler
    sent,                 \* replies and renders delivered to users, in order
    adapter_calls,        \* adapter invocations, in order
    failures              \* failures of the transport or the audit store still to come

vars == <<env, phase, events, tasks, user_data, firebase_initialized, interactions,
          console, sent, adapter_calls, failures>>

(* ---------------- per-user state ---------------- *)
EmptyUserData == [faq_topic |-> Absent, awaiting_ip |-> FALSE, awaiting_hash |-> FALSE]

(* ---------------- updates ---------------- *)
Update(u, kind, data) == [user |-> u, kind |-> kind, data |-> data]
StartUpdates == {Update(u, "start", "") : u \in Users}
CallbackUpdates == {Update(u, "callback", c) : u \in Users, c \in Tokens}
TextUpdates == {Update(u, "text", "") : u \in Users}
Updates == StartUpdates \cup CallbackUpdates \cup TextUpdates

(* ---------------- outbound messages ---------------- *)
NoMsg == [text |-> <<"none">>, buttons |-> <<>>, via |-> "none"]
Msg(text, buttons, via) == [text |-> text, buttons |-> buttons, via |-> via]

MainMenuButtons == <<"menu_faq", "menu_tools", "menu_emergency">>
FaqMenuButtons == <<"faq_cyber", "faq_fraud", "faq_ipc", "back_to_main">>
ToolsMenuButtons == <<"tool_ip", "tool_hash", "back_to_main">>
EmergencyButtons == <<"back_to_main">>

(* show_main_menu: edits the message under a callback, replies otherwise *)
show_main_menu(kind) ==
    Msg(<<"main_menu">>, MainMenuButtons,
        IF kind = "callback" THEN "edit_message_text" ELSE "reply_text")

(* ---------------- tasks ---------------- *)
Finished == {"done", "failed", "log_raised"}
Task(pc, out, branch, topic) == [pc |-> pc, out |-> out, branch |-> branch, topic |-> topic]

(* concurrent_updates of the Application built in main(): the builder's default *)
concurrent_updates_on == TRUE
concurrent_updates == FALSE

Idle == \A i \in 1..Len(tasks) : tasks[i].pc \in Finished

(* The environment: TRUE for a variable that is set. *)
Env(token, key, url) ==
    [TELEGRAM_TOKEN |-> token, GEMINI_API_KEY |-> key, FIREBASE_DATABASE_URL |-> url]
Phases == {"import", "main", "build", "serving", "exited"}

TypeOK ==
    /\ env \in [TELEGRAM_TOKEN : BOOLEAN, GEMINI_API_KEY : BOOLEAN,
                FIREBASE_DATABASE_URL : BOOLEAN]
    /\ phase \in Phases
    /\ events \in Seq(Updates)
    /\ Len(tasks) <= Len(events)
    /\ user_data \in [Users -> [faq_topic : Topics \cup {Absent},
                                awaiting_ip : BOOLEAN, awaiting_hash : BOOLEAN]]
    /\ firebase_initialized \in BOOLEAN
    /\ failures \in Nat
    /\ \A i \in 1..Len(tasks) : tasks[i].pc \in
         {"answer", "typing", "searching", "looking", "reply", "done", "failed", "log_raised"}

(* Nothing received, stored, printed or sent yet. *)
Blank ==
    /\ events = <<>>
    /\ tasks = <<>>
    /\ user_data = [u \in Users |-> EmptyUserData]
    /\ interactions = <<>>
    /\ console = <<>>
    /\ sent = <<>>
    /\ adapter_calls = <<>>

(* The state after start-up: run_polling has been called, no update has   *)
(* been received yet.                                                     *)
Started ==
    /\ Blank
    /\ phase = "serving"

(* Start-up got through with the token and the API key set; the audit     *)
(* store was initialised with the database URL set.                       *)
Configured == env = Env(TRUE, TRUE, firebase_initialized)

Init ==
    /\ Started
    /\ firebase_initialized \in BOOLEAN
    /\ Configured
    /\ failures = MaxFailures

(* ---------------- Interaction logger ---------------- *)
(* The two sinks a log call can write to, and whether the call raised. *)
Sinks == [interactions |-> interactions, console |-> console, raised |-> FALSE]

Entry(user_id, action, data, ev) ==
    [user_id |-> user_id, action |-> action, data |-> data, ev |-> ev]
Line(line, user_id, action, data, ev) ==
    [line |-> line, user_id |-> user_id, action |-> action, data |-> data, ev |-> ev]

(* log_interaction with the try/except of lines 51-60 removed *)
log_interaction_uncaught(L, user_id, action, data, ev, ok) ==
    IF L.raised THEN L
    ELSE IF ~firebase_initialized
    THEN [L EXCEPT !.console = Append(@, Line("Log", user_id, action, data, ev))]
    ELSE IF ok
    THEN [L EXCEPT !.interactions = Append(@, Entry(user_id, action, data, ev))]
    ELSE [L EXCEPT !.raised = TRUE]

(* log_interaction returning without the print of line 48 *)
log_interaction_noprint(L, user_id, action, data, ev, ok) ==
    IF L.raised THEN L
    ELSE IF ~firebase_initialized
    THEN L
    ELSE IF ok
    THEN [L EXCEPT !.interactions = Append(@, Entry(user_id, action, data, ev))]
    ELSE [L EXCEPT !.console = Append(@, Line("Logging error", 0, "", <<>>, ev))]

(* log_interaction(user_id, action, data): ok is the outcome of push(entry).  *)
(* A statement after a raised exception does not run: L.raised passes through. *)
log_interaction(L, user_id, action, data, ev, ok) ==
    IF L.raised THEN L
    ELSE IF ~firebase_initialized
    THEN [L EXCEPT !.console = Append(@, Line("Log", user_id, action, data, ev))]
    ELSE IF ok
    THEN [L EXCEPT !.interactions = Append(@, Entry(user_id, action, data, ev))]
    ELSE [L EXCEPT !.console = Append(@, Line("Logging error", 0, "", <<>>, ev))]

(* The outcomes of the n store writes of one segment. *)
Failures(oks) == Cardinality({k \in DOMAIN oks : ~oks[k]})
PushOutcomes(n) ==
    {oks \in [1..n -> BOOLEAN] :
        IF firebase_initialized
        THEN Failures(oks) <= failures
        ELSE \A k \in 1..n : oks[k]}

(* error_handler(update, context): prints the error, then logs it when the  *)
(* update has a user.  update.effective_user is set for all three kinds of  *)
(* update handled here; an error raised outside the handling of an update   *)
(* (update is None) comes with NoUser.                                      *)
NoUser == 0
NoEvent == 0

(* error_handler logging whether or not there is a user *)
error_handler_unguarded(L, user_id, ev, ok) ==
    log_interaction(
        [L EXCEPT !.console = Append(@, Line("Error", 0, "", <<>>, ev)), !.raised = FALSE],
        user_id, "error", <<"error_message">>, ev, ok)

error_handler(L, user_id, ev, ok) ==
    LET P == [L EXCEPT !.console = Append(@, Line("Error", 0, "", <<>>, ev)), !.raised = FALSE]
    IN  IF user_id = NoUser THEN P
        ELSE log_interaction(P, user_id, "error", <<"error_message">>, ev, ok)

(* ---------------- FAQ adapter ---------------- *)
(* ask_gemini(question, topic): the prompt names the topic when one is given; *)
(* any backend failure gives the degraded message.                           *)
(* The degraded message embeds str(e)[:100].                                  *)
ErrCap == 100
Truncate(str, n) == SubSeq(str, 1, IF Len(str) < n THEN Len(str) ELSE n)

(* ask_gemini embedding the whole of str(e) *)
ask_gemini_untruncated(topic, outcome) ==
    IF outcome.ok
    THEN <<"answer", IF topic # NoTopic THEN topic ELSE "general">>
    ELSE <<"faq_unavailable">> \o outcome.error \o <<"...">>

ask_gemini(topic, outcome) ==
    IF outcome.ok
    THEN <<"answer", IF topic # NoTopic THEN topic ELSE "general">>
    ELSE <<"faq_unavailable">> \o Truncate(outcome.error, ErrCap) \o <<"...">>

(* the IP lookup with city and country taken from each other's key *)
ip_lookup_swapped(res) ==
    IF res.raised \/ res.status = Absent THEN <<"ip_failed">>
    ELSE IF res.status = "success"
    THEN IF Absent \in {res.query, res.city, res.regionName, res.country, res.isp}
         THEN <<"ip_failed">>
         ELSE <<"ip_info", res.query, res.country, res.regionName, res.city, res.isp>>
    ELSE IF res.message = Absent THEN <<"ip_failed">>
    ELSE <<"ip_error", res.message>>

(* the IP lookup of handle_text, lines 191-199: a raised request and a    *)
(* KeyError on a missing key both end in the except branch                *)
ip_lookup(res) ==
    IF res.raised \/ res.status = Absent THEN <<"ip_failed">>
    ELSE IF res.status = "success"
    THEN IF Absent \in {res.query, res.city, res.regionName, res.country, res.isp}
         THEN <<"ip_failed">>
         ELSE <<"ip_info", res.query, res.city, res.regionName, res.country, res.isp>>
    ELSE IF res.message = Absent THEN <<"ip_failed">>
    ELSE <<"ip_error", res.message>>

hash_check == <<"hash_dummy">>

(* ---------------- User state ---------------- *)
(* button_router with an else branch that resets the user's state *)
button_effect_reset(ud, choice) ==
    IF choice = "menu_faq" THEN ud
    ELSE IF startswith_faq(choice) THEN [ud EXCEPT !.faq_topic = split_topic(choice)]
    ELSE IF choice = "menu_tools" THEN ud
    ELSE IF choice = "tool_ip" THEN [ud EXCEPT !.awaiting_ip = TRUE]
    ELSE IF choice = "tool_hash" THEN [ud EXCEPT !.awaiting_hash = TRUE]
    ELSE IF choice \in {"menu_emergency", "back_to_main"} THEN ud
    ELSE EmptyUserData

(* button_router with back_to_main clearing the flags *)
button_effect_backclears(ud, choice) ==
    IF choice = "menu_faq" THEN ud
    ELSE IF startswith_faq(choice) THEN [ud EXCEPT !.faq_topic = split_topic(choice)]
    ELSE IF choice = "menu_tools" THEN ud
    ELSE IF choice = "tool_ip" THEN [ud EXCEPT !.awaiting_ip = TRUE]
    ELSE IF choice = "tool_hash" THEN [ud EXCEPT !.awaiting_hash = TRUE]
    ELSE IF choice = "back_to_main" THEN EmptyUserData
    ELSE ud

(* button_router's writes to context.user_data *)
button_effect(ud, choice) ==
    IF choice = "menu_faq" THEN ud
    ELSE IF startswith_faq(choice) THEN [ud EXCEPT !.faq_topic = split_topic(choice)]
    ELSE IF choice = "menu_tools" THEN ud
    ELSE IF choice = "tool_ip" THEN [ud EXCEPT !.awaiting_ip = TRUE]
    ELSE IF choice = "tool_hash" THEN [ud EXCEPT !.awaiting_hash = TRUE]
    ELSE ud

(* button_router without its back_to_main branch *)
button_render_noback(choice) ==
    IF choice = "menu_faq"
    THEN Msg(<<"faq_menu">>, FaqMenuButtons, "edit_message_text")
    ELSE IF startswith_faq(choice)
    THEN Msg(<<"faq_prompt", split_topic(choice)>>, <<>>, "edit_message_text")
    ELSE IF choice = "menu_tools"
    THEN Msg(<<"tools_menu">>, ToolsMenuButtons, "edit_message_text")
    ELSE IF choice = "tool_ip"
    THEN Msg(<<"ip_prompt">>, <<>>, "edit_message_text")
    ELSE IF choice = "tool_hash"
    THEN Msg(<<"hash_prompt">>, <<>>, "edit_message_text")
    ELSE IF choice = "menu_emergency"
    THEN Msg(<<"emergency">>, EmergencyButtons, "edit_message_text")
    ELSE NoMsg

(* what button_router renders for a choice; NoMsg when no branch matches *)
button_render(choice) ==
    IF choice = "menu_faq"
    THEN Msg(<<"faq_menu">>, FaqMenuButtons, "edit_message_text")
    ELSE IF startswith_faq(choice)
    THEN Msg(<<"faq_prompt", split_topic(choice)>>, <<>>, "edit_message_text")
    ELSE IF choice = "menu_tools"
    THEN Msg(<<"tools_menu">>, ToolsMenuButtons, "edit_message_text")
    ELSE IF choice = "tool_ip"
    THEN Msg(<<"ip_prompt">>, <<>>, "edit_message_text")
    ELSE IF choice = "tool_hash"
    THEN Msg(<<"hash_prompt">>, <<>>, "edit_message_text")
    ELSE IF choice = "menu_emergency"
    THEN Msg(<<"emergency">>, EmergencyButtons, "edit_message_text")
    ELSE IF choice = "back_to_main"
    THEN show_main_menu("callback")
    ELSE NoMsg

(* the button under the last reply of each branch of handle_text *)
reply_buttons(branch) ==
    CASE branch = "faq" -> <<"menu_faq">>
      [] branch \in {"ip", "hash"} -> <<"menu_tools">>
      [] OTHER -> <<"back_to_main">>

(* handle_text's chain of tests, lines 176, 188, 206 *)
dispatch_swapped(ud) ==
    IF ud.awaiting_ip THEN "ip"
    ELSE IF ud.faq_topic # Absent THEN "faq"
    ELSE IF ud.awaiting_hash THEN "hash"
    ELSE "general"

dispatch(ud) ==
    IF ud.faq_topic # Absent THEN "faq"
    ELSE IF ud.awaiting_ip THEN "ip"
    ELSE IF ud.awaiting_hash THEN "hash"
    ELSE "general"

(* handle_text reading the flags with get in place of pop *)
consume_get(ud) == ud

(* the pops of handle_text on the way to the branch taken *)
consume(ud) ==
    CASE dispatch(ud) = "faq" -> [ud EXCEPT !.faq_topic = Absent]
      [] dispatch(ud) = "ip" -> [ud EXCEPT !.awaiting_ip = FALSE]
      [] dispatch(ud) = "hash" -> [ud EXCEPT !.awaiting_ip = FALSE, !.awaiting_hash = FALSE]
      [] OTHER -> [ud EXCEPT !.awaiting_ip = FALSE, !.awaiting_hash = FALSE]

(* context.user_data is the dictionary of update.effective_user *)
user_data_shared(user_id) == 1
user_data_key(user_id) == user_id

(* ---------------- the handlers, segment by segment ---------------- *)
Put(ts, i, t) == IF i = Len(ts) + 1 THEN Append(ts, t) ELSE [ts EXCEPT ![i] = t]
Delivered(i) ==
    IF tasks[i].out = NoMsg THEN sent
    ELSE Append(sent, [ev |-> i, user |-> events[i].user, msg |-> tasks[i].out])
Call(i, adapter, topic) == [ev |-> i, adapter |-> adapter, topic |-> topic]
(* a call of an adapter and what its backend did *)
Answered(i, adapter, topic, backend) ==
    [ev |-> i, adapter |-> adapter, topic |-> topic, backend |-> backend]

(* The end of a segment: L is what its log calls produced and oks the      *)
(* outcomes of its store writes; t is the task at the next await, ud the   *)
(* user's state and calls the adapter calls.  When a log call raised, the  *)
(* handler stops there with the user's state udr, and error_handler runs.  *)
Finish(i, L, oks, t, ud, udr, calls) ==
    LET u == events[i].user
        k == user_data_key(u)
        R == IF L.raised THEN error_handler(L, u, i, TRUE) ELSE L
    IN  /\ interactions' = R.interactions
        /\ console' = R.console
        /\ failures' = failures - Failures(oks)
        /\ tasks' = Put(tasks, i, IF L.raised THEN Task("log_raised", NoMsg, "raised", t.topic) ELSE t)
        /\ user_data' = [user_data EXCEPT ![k] = IF L.raised THEN udr ELSE ud]
        /\ adapter_calls' = IF L.raised THEN adapter_calls ELSE calls

At(i, pc) == i <= Len(tasks) /\ tasks[i].pc = pc

(* events[i] is the next update to hand to its handler *)
Pending(i) ==
    /\ phase = "serving"
    /\ i = Len(tasks) + 1
    /\ i <= Len(events)

(* the application hands over one update at a time *)
CanFetch(i) ==
    /\ Pending(i)
    /\ concurrent_updates \/ Idle

(* An update of US arrives while fewer than n have. *)
Arrive(US, n) ==
    /\ phase = "serving"
    /\ Len(events) < n
    /\ \E e \in US : events' = Append(events, e)
    /\ UNCHANGED <<env, phase, tasks, user_data, firebase_initialized, interactions, console,
                   sent, adapter_calls, failures>>

(* start: log 'start', then show_main_menu awaits reply_text *)
FetchStart(i) ==
    /\ CanFetch(i)
    /\ events[i].kind = "start"
    /\ \E oks \in PushOutcomes(1) :
         LET u == events[i].user
             L == log_interaction(Sinks, u, "start", <<>>, i, oks[1])
         IN  Finish(i, L, oks, Task("reply", show_main_menu("start"), "start", NoTopic),
                    user_data[user_data_key(u)], user_data[user_data_key(u)], adapter_calls)
    /\ UNCHANGED <<env, phase, events, firebase_initialized, sent>>

(* button_router up to await query.answer() *)
BeginCallback(i) ==
    /\ events[i].kind = "callback"
    /\ tasks' = Append(tasks, Task("answer", NoMsg, "button", NoTopic))
    /\ UNCHANGED <<env, phase, events, user_data, firebase_initialized, interactions, console,
                   sent, adapter_calls, failures>>

FetchCallback(i) == CanFetch(i) /\ BeginCallback(i)

(* handle_text up to await send_action('typing') *)
BeginText(i) ==
    /\ events[i].kind = "text"
    /\ tasks' = Append(tasks, Task("typing", NoMsg, "text", NoTopic))
    /\ UNCHANGED <<env, phase, events, user_data, firebase_initialized, interactions, console,
                   sent, adapter_calls, failures>>

FetchText(i) == CanFetch(i) /\ BeginText(i)

(* button_router after query.answer(): log the click, then the if/elif chain *)
ButtonDispatch(i) ==
    /\ At(i, "answer")
    /\ \E oks \in PushOutcomes(1) :
         LET u == events[i].user
             choice == events[i].data
             L == log_interaction(Sinks, u, "button_click", <<choice>>, i, oks[1])
             out == button_render(choice)
         IN  Finish(i, L, oks,
                    Task(IF out = NoMsg THEN "done" ELSE "reply", out, "clicked", NoTopic),
                    button_effect(user_data[user_data_key(u)], choice),
                    user_data[user_data_key(u)], adapter_calls)
    /\ UNCHANGED <<env, phase, events, firebase_initialized, sent>>

(* handle_text after send_action: the faq_topic branch up to "Searching..." *)
TextFaq(i) ==
    /\ At(i, "typing")
    /\ dispatch(user_data[user_data_key(events[i].user)]) = "faq"
    /\ \E oks \in PushOutcomes(1) :
         LET u == events[i].user
             ud == user_data[user_data_key(u)]
             topic == ud.faq_topic
             L == log_interaction(Sinks, u, "faq_question", <<topic, "question">>, i, oks[1])
         IN  Finish(i, L, oks,
                    Task("searching", Msg(<<"searching">>, <<>>, "reply_text"), "faq", topic),
                    consume(ud), consume(ud), adapter_calls)
    /\ UNCHANGED <<env, phase, events, firebase_initialized, sent>>

(* the awaiting_ip branch: query logged, lookup, result logged, reply issued *)
TextIp(i) ==
    /\ At(i, "typing")
    /\ dispatch(user_data[user_data_key(events[i].user)]) = "ip"
    /\ \E oks \in PushOutcomes(2), outcome \in IpOutcomes :
         LET u == events[i].user
             ud == user_data[user_data_key(u)]
             result == ip_lookup(outcome)
             L1 == log_interaction(Sinks, u, "ip_query", <<"ip">>, i, oks[1])
             L2 == log_interaction(L1, u, "ip_result", result, i, oks[2])
         IN  Finish(i, L2, oks,
                    Task("reply", Msg(result, reply_buttons("ip"), "reply_text"), "ip", NoTopic),
                    consume(ud), consume(ud),
                    Append(adapter_calls, Answered(i, "ip", NoTopic, outcome)))
    /\ UNCHANGED <<env, phase, events, firebase_initialized, sent>>

(* the awaiting_hash branch without its return: the handler goes on to    *)
(* the default branch                                                   *)
TextHash_noreturn(i) ==
    /\ At(i, "typing")
    /\ dispatch(user_data[user_data_key(events[i].user)]) = "hash"
    /\ \E oks \in PushOutcomes(2) :
         LET u == events[i].user
             ud == user_data[user_data_key(u)]
             L1 == log_interaction(Sinks, u, "hash_query", <<"hash">>, i, oks[1])
             L2 == log_interaction(L1, u, "hash_result", hash_check, i, oks[2])
         IN  Finish(i, L2, oks,
                    Task("looking", Msg(hash_check, <<"menu_tools">>, "reply_text"), "hash", NoTopic),
                    consume(ud), consume(ud),
                    Append(adapter_calls, Answered(i, "hash", NoTopic, hash_check)))
    /\ UNCHANGED <<env, phase, events, firebase_initialized, sent>>

(* the awaiting_hash branch *)
TextHash(i) ==
    /\ At(i, "typing")
    /\ dispatch(user_data[user_data_key(events[i].user)]) = "hash"
    /\ \E oks \in PushOutcomes(2) :
         LET u == events[i].user
             ud == user_data[user_data_key(u)]
             L1 == log_interaction(Sinks, u, "hash_query", <<"hash">>, i, oks[1])
             L2 == log_interaction(L1, u, "hash_result", hash_check, i, oks[2])
         IN  Finish(i, L2, oks,
                    Task("reply", Msg(hash_check, reply_buttons("hash"), "reply_text"), "hash", NoTopic),
                    consume(ud), consume(ud),
                    Append(adapter_calls, Answered(i, "hash", NoTopic, hash_check)))
    /\ UNCHANGED <<env, phase, events, firebase_initialized, sent>>

(* the default branch up to "Looking for an answer..." *)
TextGeneral(i) ==
    /\ At(i, "typing")
    /\ dispatch(user_data[user_data_key(events[i].user)]) = "general"
    /\ \E oks \in PushOutcomes(1) :
         LET u == events[i].user
             ud == user_data[user_data_key(u)]
             L == log_interaction(Sinks, u, "general_question", <<"question">>, i, oks[1])
         IN  Finish(i, L, oks,
                    Task("looking", Msg(<<"looking">>, <<>>, "reply_text"), "general", NoTopic),
                    consume(ud), consume(ud), adapter_calls)
    /\ UNCHANGED <<env, phase, events, firebase_initialized, sent>>

(* after "Searching...": ask_gemini(text, topic), log the answer, reply *)
FaqAnswerOn(i, Outcomes) ==
    /\ At(i, "searching")
    /\ sent' = Delivered(i)
    /\ \E oks \in PushOutcomes(1), outcome \in Outcomes :
         LET u == events[i].user
             topic == tasks[i].topic
             answer == ask_gemini(topic, outcome)
             L == log_interaction(Sinks, u, "faq_answer", <<topic>> \o answer, i, oks[1])
         IN  Finish(i, L, oks,
                    Task("reply", Msg(answer, reply_buttons("faq"), "reply_text"), "faq", topic),
                    user_data[user_data_key(u)], user_data[user_data_key(u)],
                    Append(adapter_calls, Answered(i, "faq", topic, outcome)))
    /\ UNCHANGED <<env, phase, events, firebase_initialized>>

FaqAnswer(i) == FaqAnswerOn(i, GeminiOutcomes)

(* after "Looking for an answer...": ask_gemini(text), log the answer, reply *)
GeneralAnswerOn(i, Outcomes) ==
    /\ At(i, "looking")
    /\ sent' = Delivered(i)
    /\ \E oks \in PushOutcomes(1), outcome \in Outcomes :
         LET u == events[i].user
             answer == ask_gemini(NoTopic, outcome)
             L == log_interaction(Sinks, u, "general_answer", answer, i, oks[1])
         IN  Finish(i, L, oks,
                    Task("reply", Msg(answer, reply_buttons("general"), "reply_text"), "general", NoTopic),
                    user_data[user_data_key(u)], user_data[user_data_key(u)],
                    Append(adapter_calls, Answered(i, "faq", NoTopic, outcome)))
    /\ UNCHANGED <<env, phase, events, firebase_initialized>>

GeneralAnswer(i) == GeneralAnswerOn(i, GeminiOutcomes)

(* the last reply_text / edit_message_text of a handler returns *)
DeliverReply(i) ==
    /\ At(i, "reply")
    /\ sent' = Delivered(i)
    /\ tasks' = [tasks EXCEPT ![i] = Task("done", NoMsg, @.branch, @.topic)]
    /\ UNCHANGED <<env, phase, events, user_data, firebase_initialized, interactions, console,
                   adapter_calls, failures>>

(* a failed handler putting back the flag it had consumed *)
Fault_rollback(i) ==
    /\ tasks[i].pc \notin Finished
    /\ failures > 0
    /\ \E oks \in PushOutcomes(1) :
         LET R == error_handler(Sinks, events[i].user, i, oks[1])
         IN  /\ 1 + Failures(oks) <= failures
             /\ interactions' = R.interactions
             /\ console' = R.console
             /\ failures' = failures - 1 - Failures(oks)
    /\ tasks' = [tasks EXCEPT ![i] = Task("failed", NoMsg, @.branch, @.topic)]
    /\ user_data' = [user_data EXCEPT ![user_data_key(events[i].user)] =
                        CASE tasks[i].branch = "faq" -> [@ EXCEPT !.faq_topic = tasks[i].topic]
                          [] tasks[i].branch = "ip" -> [@ EXCEPT !.awaiting_ip = TRUE]
                          [] tasks[i].branch = "hash" -> [@ EXCEPT !.awaiting_hash = TRUE]
                          [] OTHER -> @]
    /\ UNCHANGED <<env, phase, events, firebase_initialized, sent, adapter_calls>>

(* the transport call a handler awaits raises: error_handler runs *)
Fault(i) ==
    /\ tasks[i].pc \notin Finished
    /\ failures > 0
    /\ \E oks \in PushOutcomes(1) :
         LET R == error_handler(Sinks, events[i].user, i, oks[1])
         IN  /\ 1 + Failures(oks) <= failures
             /\ interactions' = R.interactions
             /\ console' = R.console
             /\ failures' = failures - 1 - Failures(oks)
    /\ tasks' = [tasks EXCEPT ![i] = Task("failed", NoMsg, @.branch, @.topic)]
    /\ UNCHANGED <<env, phase, events, user_data, firebase_initialized, sent, adapter_calls>>

(* fetching updates raises: run_polling hands the error to error_handler  *)
(* with no update                                                        *)
PollFault ==
    /\ phase = "serving"
    /\ failures > 0
    /\ LET R == error_handler(Sinks, NoUser, NoEvent, TRUE)
       IN  /\ interactions' = R.interactions
           /\ console' = R.console
    /\ failures' = failures - 1
    /\ UNCHANGED <<env, phase, events, tasks, user_data, firebase_initialized, sent, adapter_calls>>

(* Spec: both users, updates arriving at any time, transport calls and    *)
(* audit store writes that may fail.  The code uses a user id only as a   *)
(* key, so the users are interchangeable and the one heard of first is    *)
(* called user 1.                                                         *)
Arrivals == IF events = <<>> THEN {e \in Updates : e.user = 1} ELSE Updates

Next ==
    \/ Arrive(Arrivals, MaxEvents)
    \/ \E i \in 1..Len(events) : FetchStart(i)
    \/ \E i \in 1..Len(events) : FetchCallback(i)
    \/ \E i \in 1..Len(events) : FetchText(i)
    \/ \E i \in 1..Len(tasks) : ButtonDispatch(i)
    \/ \E i \in 1..Len(tasks) : TextFaq(i)
    \/ \E i \in 1..Len(tasks) : TextIp(i)
    \/ \E i \in 1..Len(tasks) : TextHash(i)
    \/ \E i \in 1..Len(tasks) : TextGeneral(i)
    \/ \E i \in 1..Len(tasks) : FaqAnswer(i)
    \/ \E i \in 1..Len(tasks) : GeneralAnswer(i)
    \/ \E i \in 1..Len(tasks) : DeliverReply(i)
    \/ \E i \in 1..Len(tasks) : Fault(i)

Spec == Init /\ [][Next]_vars

(* SpecError: both users, each update sent once the last one has been    *)
(* handled; handling an update, fetching updates and audit store writes  *)
(* may fail.                                                             *)
ErrorUpdates == {e \in Updates : e.kind = "callback" => e.data = "tool_ip"}

InitError ==
    /\ Started
    /\ firebase_initialized \in BOOLEAN
    /\ Configured
    /\ failures = MaxErrorFailures

ArriveError ==
    /\ Len(tasks) = Len(events)
    /\ Idle
    /\ Arrive(ErrorUpdates, MaxErrorEvents)

NextError ==
    \/ ArriveError
    \/ \E i \in 1..Len(events) : FetchStart(i)
    \/ \E i \in 1..Len(events) : FetchCallback(i)
    \/ \E i \in 1..Len(events) : FetchText(i)
    \/ \E i \in 1..Len(tasks) : ButtonDispatch(i)
    \/ \E i \in 1..Len(tasks) : TextIp(i)
    \/ \E i \in 1..Len(tasks) : TextGeneral(i)
    \/ \E i \in 1..Len(tasks) : GeneralAnswer(i)
    \/ \E i \in 1..Len(tasks) : DeliverReply(i)
    \/ \E i \in 1..Len(tasks) : Fault(i)
    \/ PollFault

SpecError == InitError /\ [][NextError]_vars

(* SpecFlow: one user who sends the next update once the last one has    *)
(* been handled; the audit store is up and nothing fails.                *)
FlowUpdates == {e \in Updates : e.user = 1}

InitFlow ==
    /\ Started
    /\ firebase_initialized = TRUE
    /\ Configured
    /\ failures = 0

ArriveFlow ==
    /\ Len(tasks) = Len(events)
    /\ Idle
    /\ Arrive(FlowUpdates, MaxFlowEvents)

NextFlow ==
    \/ ArriveFlow
    \/ \E i \in 1..Len(events) : FetchStart(i)
    \/ \E i \in 1..Len(events) : FetchCallback(i)
    \/ \E i \in 1..Len(events) : FetchText(i)
    \/ \E i \in 1..Len(tasks) : ButtonDispatch(i)
    \/ \E i \in 1..Len(tasks) : TextFaq(i)
    \/ \E i \in 1..Len(tasks) : TextIp(i)
    \/ \E i \in 1..Len(tasks) : TextHash(i)
    \/ \E i \in 1..Len(tasks) : TextGeneral(i)
    \/ \E i \in 1..Len(tasks) : FaqAnswer(i)
    \/ \E i \in 1..Len(tasks) : GeneralAnswer(i)
    \/ \E i \in 1..Len(tasks) : DeliverReply(i)

SpecFlow == InitFlow /\ [][NextFlow]_vars

(* SpecAsk: one user who picks FAQ topics and asks questions, each update *)
(* sent once the last one has been handled; the backend of the FAQ        *)
(* adapter answers or raises with a description of any length around the  *)
(* cap.                                                                   *)
AskUpdates == {e \in FlowUpdates : e.kind = "callback" => e.data \in FaqTokens} \ StartUpdates
AskOutcomes ==
    {GeminiText} \cup
    {GeminiError(n) : n \in {0, 1, ErrCap - 1, ErrCap, ErrCap + 1, ErrCap + ErrCap}}

ArriveAsk ==
    /\ Len(tasks) = Len(events)
    /\ Idle
    /\ Arrive(AskUpdates, MaxAskEvents)

NextAsk ==
    \/ ArriveAsk
    \/ \E i \in 1..Len(events) : FetchCallback(i)
    \/ \E i \in 1..Len(events) : FetchText(i)
    \/ \E i \in 1..Len(tasks) : ButtonDispatch(i)
    \/ \E i \in 1..Len(tasks) : TextFaq(i)
    \/ \E i \in 1..Len(tasks) : TextGeneral(i)
    \/ \E i \in 1..Len(tasks) : FaqAnswerOn(i, AskOutcomes)
    \/ \E i \in 1..Len(tasks) : GeneralAnswerOn(i, AskOutcomes)
    \/ \E i \in 1..Len(tasks) : DeliverReply(i)

SpecAsk == InitFlow /\ [][NextAsk]_vars

(* ---------------- start-up ---------------- *)
(* lines 32-43: the audit store is initialised when the credentials file  *)
(* can be read and reference('/') finds a database URL                    *)
firebase_init(url, cert) == url /\ cert

(* main without its test call *)
gemini_unvalidated(key, accepted) == TRUE

(* lines 228-235: the test call of main succeeds when there is an API key *)
(* and the backend accepts it                                             *)
gemini_validated(key, accepted) == key /\ accepted

(* lines 237 and 244: build() raises without a token, run_polling raises  *)
(* when Telegram does not accept it                                       *)
token_accepted(token, accepted) == token /\ accepted

InitFirebase ==
    /\ phase = "import"
    /\ phase' = "main"
    /\ \E cert \in BOOLEAN :
         /\ firebase_initialized' = firebase_init(env.FIREBASE_DATABASE_URL, cert)
         /\ console' = IF firebase_initialized' THEN console
                       ELSE Append(console, Line("Firebase initialization error", NoUser, "", <<>>, NoEvent))
    /\ UNCHANGED <<env, events, tasks, user_data, interactions, sent, adapter_calls, failures>>

ValidateGemini ==
    /\ phase = "main"
    /\ \E accepted \in BOOLEAN :
         phase' = IF gemini_validated(env.GEMINI_API_KEY, accepted) THEN "build" ELSE "exited"
    /\ UNCHANGED <<env, events, tasks, user_data, firebase_initialized, interactions, console,
                   sent, adapter_calls, failures>>

BuildApp ==
    /\ phase = "build"
    /\ \E accepted \in BOOLEAN :
         phase' = IF token_accepted(env.TELEGRAM_TOKEN, accepted) THEN "serving" ELSE "exited"
    /\ UNCHANGED <<env, events, tasks, user_data, firebase_initialized, interactions, console,
                   sent, adapter_calls, failures>>

(* SpecStartup: the process from its first line, with any of the three    *)
(* environment variables set or not; once it serves, one user sends start *)
(* and text messages, each once the last one has been handled.            *)
StartupUpdates == {e \in FlowUpdates : e.kind # "callback"}

InitStartup ==
    /\ Blank
    /\ phase = "import"
    /\ env \in [TELEGRAM_TOKEN : BOOLEAN, GEMINI_API_KEY : BOOLEAN,
                FIREBASE_DATABASE_URL : BOOLEAN]
    /\ firebase_initialized = FALSE
    /\ failures = 0

ArriveStartup ==
    /\ Len(tasks) = Len(events)
    /\ Idle
    /\ Arrive(StartupUpdates, MaxStartupEvents)

NextStartup ==
    \/ InitFirebase
    \/ ValidateGemini
    \/ BuildApp
    \/ ArriveStartup
    \/ \E i \in 1..Len(events) : FetchStart(i)
    \/ \E i \in 1..Len(events) : FetchText(i)
    \/ \E i \in 1..Len(tasks) : TextGeneral(i)
    \/ \E i \in 1..Len(tasks) : GeneralAnswer(i)
    \/ \E i \in 1..Len(tasks) : DeliverReply(i)

SpecStartup == InitStartup /\ [][NextStartup]_vars

(* SpecConcurrent: the handlers of one user's updates run as concurrent   *)
(* tasks, each started in arrival order and each free to run on from any  *)
(* of its awaits whatever the others do; the audit store is up and        *)
(* nothing fails.  This is the application built with concurrent updates,  *)
(* which main does not do: it is the setting of the claim about           *)
(* interleavings.                                                         *)
ConcurrentUpdates ==
    {e \in FlowUpdates : \/ e.kind = "text"
                         \/ e.kind = "callback" /\ e.data \in {"faq_cyber", "tool_hash"}}

(* the user presses a button when nothing is being handled, and sends a   *)
(* text message at any time                                               *)
ArriveConcurrent ==
    Arrive(IF Len(tasks) = Len(events) /\ Idle THEN ConcurrentUpdates
           ELSE ConcurrentUpdates \cap TextUpdates, MaxConcurrentEvents)

NextConcurrent ==
    \/ ArriveConcurrent
    \/ \E i \in 1..Len(events) : Pending(i) /\ BeginCallback(i)
    \/ \E i \in 1..Len(events) : Pending(i) /\ BeginText(i)
    \/ \E i \in 1..Len(tasks) : ButtonDispatch(i)
    \/ \E i \in 1..Len(tasks) : TextFaq(i)
    \/ \E i \in 1..Len(tasks) : TextHash(i)
    \/ \E i \in 1..Len(tasks) : TextGeneral(i)
    \/ \E i \in 1..Len(tasks) : FaqAnswerOn(i, {GeminiText})
    \/ \E i \in 1..Len(tasks) : GeneralAnswerOn(i, {GeminiText})
    \/ \E i \in 1..Len(tasks) : DeliverReply(i)

SpecConcurrent == InitFlow /\ [][NextConcurrent]_vars

(* SpecRetry: one user who sets flags and sends text messages, each       *)
(* update sent once the last one has been handled; transport calls and    *)
(* audit store writes may fail.                                           *)
RetryUpdates ==
    {e \in FlowUpdates : \/ e.kind = "text"
                         \/ e.kind = "callback" /\ e.data \in {"faq_cyber", "tool_hash"}}

InitRetry ==
    /\ Started
    /\ firebase_initialized = TRUE
    /\ Configured
    /\ failures = MaxFailures

ArriveRetry ==
    /\ Len(tasks) = Len(events)
    /\ Idle
    /\ Arrive(RetryUpdates, MaxRetryEvents)

NextRetry ==
    \/ ArriveRetry
    \/ \E i \in 1..Len(events) : FetchCallback(i)
    \/ \E i \in 1..Len(events) : FetchText(i)
    \/ \E i \in 1..Len(tasks) : ButtonDispatch(i)
    \/ \E i \in 1..Len(tasks) : TextFaq(i)
    \/ \E i \in 1..Len(tasks) : TextHash(i)
    \/ \E i \in 1..Len(tasks) : TextGeneral(i)
    \/ \E i \in 1..Len(tasks) : FaqAnswer(i)
    \/ \E i \in 1..Len(tasks) : GeneralAnswer(i)
    \/ \E i \in 1..Len(tasks) : DeliverReply(i)
    \/ \E i \in 1..Len(tasks) : Fault(i)

SpecRetry == InitRetry /\ [][NextRetry]_vars

(* ======================= properties ======================= *)
User(i) == events[i].user
NumFlags(ud) ==
    (IF ud.faq_topic # Absent THEN 1 ELSE 0)
    + (IF ud.awaiting_ip THEN 1 ELSE 0)
    + (IF ud.awaiting_hash THEN 1 ELSE 0)
TextBranches == {"faq", "ip", "hash", "general"}

(* C1: in every reachable state, every user has at most one of             *)
(* faq_topic set, awaiting_ip true, awaiting_hash true.                    *)
C1_MutualExclusivity == \A u \in Users : NumFlags(user_data[u]) <= 1

(* C2: when a text message of a user consumed a flag, that user's next     *)
(* text message, with no button press in between, takes the general path.  *)
C2_OneShot ==
    \A i \in 1..Len(tasks) : \A j \in 1..Len(tasks) :
        ( /\ i < j
          /\ User(i) = User(j)
          /\ events[i].kind = "text" /\ events[j].kind = "text"
          /\ tasks[i].branch \in {"faq", "ip", "hash"}
          /\ tasks[j].branch \in TextBranches
          /\ \A k \in (i + 1)..(j - 1) :
                User(k) = User(i) => events[k].kind = "start" )
        => tasks[j].branch = "general"

Invocations ==
    [c \in 1..Len(adapter_calls) |->
        Call(adapter_calls[c].ev, adapter_calls[c].adapter, adapter_calls[c].topic)]

(* C3: the step of handle_text that dispatches a text message takes the    *)
(* first branch that matches, in the order faq_topic, awaiting_ip,         *)
(* awaiting_hash, general; it clears the flag of that branch and leaves    *)
(* the user's other flags as they were; the adapter of the branch is then  *)
(* called, the FAQ adapter with the topic taken from the flag.             *)
C3_Step(i) ==
    LET ud == user_data[User(i)]
        ud2 == user_data'[User(i)]
        t2 == tasks'[i]
    IN  /\ ( At(i, "typing") /\ t2.pc \notin {"typing", "failed"} ) =>
            /\ ud.faq_topic # Absent =>
                 /\ t2.branch = "faq" /\ t2.topic = ud.faq_topic
                 /\ ud2 = [ud EXCEPT !.faq_topic = Absent]
                 /\ adapter_calls' = adapter_calls
            /\ (ud.faq_topic = Absent /\ ud.awaiting_ip) =>
                 /\ t2.branch = "ip"
                 /\ ud2 = [ud EXCEPT !.awaiting_ip = FALSE]
                 /\ Invocations' = Append(Invocations, Call(i, "ip", NoTopic))
            /\ (ud.faq_topic = Absent /\ ~ud.awaiting_ip /\ ud.awaiting_hash) =>
                 /\ t2.branch = "hash"
                 /\ ud2 = [ud EXCEPT !.awaiting_hash = FALSE]
                 /\ Invocations' = Append(Invocations, Call(i, "hash", NoTopic))
            /\ (ud.faq_topic = Absent /\ ~ud.awaiting_ip /\ ~ud.awaiting_hash) =>
                 /\ t2.branch = "general"
                 /\ ud2 = ud
                 /\ adapter_calls' = adapter_calls
        /\ ( At(i, "searching") /\ t2.pc = "reply" ) =>
                 Invocations' = Append(Invocations, Call(i, "faq", tasks[i].topic))
        /\ ( At(i, "looking") /\ t2.pc = "reply" ) =>
                 Invocations' = Append(Invocations, Call(i, "faq", NoTopic))

C3_DispatchPriority == [][\A i \in 1..Len(tasks) : C3_Step(i)]_vars

(* a text message consumed the FAQ topic and asked the FAQ adapter while   *)
(* awaiting_ip of the user was set, and it still is                        *)
C3_Witness ==
    \E i \in 1..Len(tasks) :
        /\ tasks[i].branch = "faq" /\ tasks[i].pc = "done"
        /\ user_data[User(i)].awaiting_ip
        /\ \E c \in 1..Len(adapter_calls) :
              Invocations[c] = Call(i, "faq", tasks[i].topic)


(* C4: a step that handles no update of user b leaves b's flags as they    *)
(* were, and the branch a text message takes is decided by the flags of    *)
(* its own sender: general exactly when the sender has no flag set, and    *)
(* otherwise a branch whose flag the sender had set.                       *)
Untouched(i) == i <= Len(tasks) /\ tasks'[i] = tasks[i]
C4_Step ==
    /\ \A b \in Users :
          (\A i \in 1..Len(tasks') : User(i) = b => Untouched(i))
          => user_data'[b] = user_data[b]
    /\ \A i \in 1..Len(tasks) :
          ( At(i, "typing") /\ tasks'[i].branch \in TextBranches ) =>
             LET own == user_data[User(i)]
                 b2 == tasks'[i].branch
             IN  /\ b2 = "general" <=> NumFlags(own) = 0
                 /\ b2 = "faq" => own.faq_topic # Absent /\ tasks'[i].topic = own.faq_topic
                 /\ b2 = "ip" => own.awaiting_ip
                 /\ b2 = "hash" => own.awaiting_hash

C4_Isolation == [][C4_Step]_vars

(* user 2's text message went down the general path and was answered       *)
(* while user 1's FAQ topic was pending, and the topic is still pending    *)
C4_Witness ==
    \E i \in 1..Len(tasks) :
        /\ User(i) = 2 /\ tasks[i].branch = "general" /\ tasks[i].pc = "done"
        /\ user_data[1].faq_topic = "cyber"
        /\ NumFlags(user_data[2]) = 0

(* C5: updates are handled in arrival order and one at a time: a handler   *)
(* is started only when every earlier one has finished, so two handlers of *)
(* one user never overlap, and the replies to a user (and the log records  *)
(* of a user) appear in the order in which the updates arrived.            *)
RepliesInOrder ==
    \A p \in 1..Len(sent) : \A q \in 1..Len(sent) :
        (p < q /\ sent[p].user = sent[q].user) => sent[p].ev <= sent[q].ev
EntriesInOrder ==
    \A p \in 1..Len(interactions) : \A q \in 1..Len(interactions) :
        (p < q /\ interactions[p].user_id = interactions[q].user_id)
        => interactions[p].ev <= interactions[q].ev
C5_PerUserSerialization ==
    /\ \A i \in 1..Len(tasks) : \A j \in 1..Len(tasks) :
          (i < j /\ User(i) = User(j)) => tasks[i].pc \in Finished
    /\ RepliesInOrder
    /\ EntriesInOrder

(* a second update of a user is being handled after the first one of that  *)
(* user was answered, the first having been a text message that suspended  *)
C5_Witness ==
    \E i \in 1..Len(tasks) : \E j \in 1..Len(tasks) :
        /\ i < j /\ User(i) = User(j)
        /\ events[i].kind = "text" /\ tasks[i].pc = "done"
        /\ tasks[j].pc \notin Finished
        /\ \E p \in 1..Len(sent) : sent[p].ev = i

(* C6: handling a callback whose token matches no branch of button_router  *)
(* changes no flag of any user and calls no adapter, and the handler ends  *)
(* normally unless the transport call query.answer() itself failed.        *)
C6_Step(i) ==
    ( /\ events[i].kind = "callback" /\ events[i].data \in UnknownTokens
      /\ ~Untouched(i) ) =>
        /\ user_data' = user_data
        /\ adapter_calls' = adapter_calls
        /\ ( At(i, "answer") =>
               \/ tasks'[i].pc = "done"
               \/ tasks'[i].pc = "failed" /\ failures' < failures )

C6_UnknownTokenNoMutation == [][\A i \in 1..Len(tasks') : C6_Step(i)]_vars

(* an unknown token was handled to the end while its user had a flag set  *)
C6_Witness ==
    \E i \in 1..Len(tasks) :
        /\ events[i].kind = "callback" /\ events[i].data \in UnknownTokens
        /\ tasks[i].pc = "done"
        /\ NumFlags(user_data[User(i)]) = 1


(* ---------------- the audit trail of one update ---------------- *)
Actions(seq) == [p \in 1..Len(seq) |-> seq[p].action]
Stored(i) == LET Of(e) == e.ev = i IN Actions(SelectSeq(interactions, Of))
Printed(i) == LET Of(l) == l.ev = i /\ l.line = "Log" IN Actions(SelectSeq(console, Of))
Logged(i) == Stored(i) \o Printed(i)
LostWrites(i) ==
    Cardinality({p \in 1..Len(console) : console[p].ev = i /\ console[p].line = "Logging error"})
Replies(i) ==
    LET Of(m) == m.ev = i
        S == SelectSeq(sent, Of)
    IN  [p \in 1..Len(S) |-> S[p].msg]
IsPrefix(s, t) == Len(s) <= Len(t) /\ SubSeq(t, 1, Len(s)) = s

(* C7: a callback with an unknown token, once handled, has left a log      *)
(* record that marks it as unhandled, that is, a record other than the     *)
(* button_click record of a recognized press.                              *)
C7_UnknownLoggedUnhandled ==
    \A i \in 1..Len(tasks) :
        ( /\ events[i].kind = "callback" /\ events[i].data \in UnknownTokens
          /\ tasks[i].pc = "done" )
        => \E p \in 1..Len(Logged(i)) : Logged(i)[p] # "button_click"

(* C8: every update whose handler has returned got at least one reply.     *)
C8_AlwaysReplies ==
    \A i \in 1..Len(tasks) : tasks[i].pc = "done" => Len(Replies(i)) >= 1


Request(b) ==
    CASE b = "faq" -> "faq_question" [] b = "ip" -> "ip_query"
      [] b = "hash" -> "hash_query" [] OTHER -> "general_question"
Response(b) ==
    CASE b = "faq" -> "faq_answer" [] b = "ip" -> "ip_result"
      [] b = "hash" -> "hash_result" [] OTHER -> "general_answer"
Dispatched(i) ==
    /\ i \in 1..Len(tasks)
    /\ events[i].kind = "text"
    /\ tasks[i].branch \in TextBranches
AdapterCalled(i) == \E c \in 1..Len(adapter_calls) : adapter_calls[c].ev = i

(* C9 as stated: a text message that has been answered has exactly two    *)
(* log entries, the request and then the response of its branch.           *)
C9_TwoEntries ==
    \A i \in 1..Len(tasks) :
        (Dispatched(i) /\ tasks[i].pc = "done")
        => Logged(i) = <<Request(tasks[i].branch), Response(tasks[i].branch)>>

(* C9 amended: a text message whose handling no transport fault cuts short *)
(* makes two log calls, the request and then the response of its branch,   *)
(* the request before the adapter is called and the response before the    *)
(* final reply is sent.  Each call leaves one record: the entry in the     *)
(* audit store, the printed entry when the store was not initialised, or   *)
(* only an error line when the write fails.  No record is ever changed or  *)
(* removed.                                                                *)
C9_Calls(i) ==
    LET b == tasks[i].branch
        pc == tasks[i].pc
        L == Logged(i)
    IN  /\ pc \in {"searching", "looking"} =>
            /\ Len(L) + LostWrites(i) = 1
            /\ L \in {<<>>, <<Request(b)>>}
            /\ ~AdapterCalled(i)
        /\ pc \in {"reply", "done"} =>
            /\ Len(L) + LostWrites(i) = 2
            /\ L \in {<<>>, <<Request(b)>>, <<Response(b)>>, <<Request(b), Response(b)>>}
            /\ LostWrites(i) = 0 => L = <<Request(b), Response(b)>>
            /\ AdapterCalled(i)
        /\ pc = "reply" => Len(Replies(i)) = (IF b \in {"faq", "general"} THEN 1 ELSE 0)
        /\ ~firebase_initialized => LostWrites(i) = 0 /\ Stored(i) = <<>>
        /\ firebase_initialized => Printed(i) = <<>>
C9_State == \A i \in 1..Len(tasks) : Dispatched(i) => C9_Calls(i)
C9_AppendOnly == IsPrefix(interactions, interactions') /\ IsPrefix(console, console')

C9_RequestThenResponse == [][C9_State' /\ C9_AppendOnly]_vars

(* a FAQ question was answered although the write of its request entry    *)
(* failed: the store holds the answer entry only                          *)
C9_Witness ==
    \E i \in 1..Len(tasks) :
        /\ Dispatched(i) /\ tasks[i].branch = "faq" /\ tasks[i].pc = "done"
        /\ Stored(i) = <<"faq_answer">> /\ LostWrites(i) = 1

(* C10: a failed or unavailable audit store never raises into a handler,   *)
(* and the flags and replies do not depend on it: every user's flags are   *)
(* what the updates handled so far make them, and every update handled to  *)
(* the end got the replies of its branch.                                  *)
RECURSIVE Replay(_, _)
Replay(u, n) ==
    IF n = 0 THEN EmptyUserData
    ELSE LET ud == Replay(u, n - 1)
         IN  IF User(n) # u THEN ud
             ELSE IF events[n].kind = "callback" /\ tasks[n].branch = "clicked"
             THEN button_effect(ud, events[n].data)
             ELSE IF Dispatched(n) THEN consume(ud)
             ELSE ud
ExpectedButtons(i) ==
    CASE tasks[i].branch = "faq" -> <<"menu_faq">>
      [] tasks[i].branch \in {"ip", "hash"} -> <<"menu_tools">>
      [] OTHER -> <<"back_to_main">>
RepliesAsExpected(i) ==
    LET R == Replies(i)
    IN  CASE events[i].kind = "start" -> R = <<show_main_menu("start")>>
          [] events[i].kind = "callback" ->
                R = (IF button_render(events[i].data) = NoMsg THEN <<>>
                     ELSE <<button_render(events[i].data)>>)
          [] OTHER ->
                /\ Len(R) = (IF tasks[i].branch \in {"faq", "general"} THEN 2 ELSE 1)
                /\ R[Len(R)].buttons = ExpectedButtons(i)
C10_LoggingResilience ==
    /\ \A i \in 1..Len(tasks) :
          /\ tasks[i].pc # "log_raised"
          /\ tasks[i].pc = "done" => RepliesAsExpected(i)
    /\ \A u \in Users : user_data[u] = Replay(u, Len(tasks))

(* a FAQ question got both of its replies although the store write of its *)
(* answer entry failed                                                     *)
C10_Witness ==
    \E i \in 1..Len(tasks) :
        /\ Dispatched(i) /\ tasks[i].branch = "faq" /\ tasks[i].pc = "done"
        /\ firebase_initialized /\ LostWrites(i) = 1 /\ Stored(i) = <<"faq_question">>
        /\ Len(Replies(i)) = 2


(* ---------------- errors raised while handling ---------------- *)
Failed(i) == i \in 1..Len(tasks) /\ tasks[i].pc = "failed"
ErrorLines(i) == {p \in 1..Len(console) : console[p].line = "Error" /\ console[p].ev = i}
ErrorEntries(i) ==
    {p \in 1..Len(interactions) :
        interactions[p].ev = i /\ interactions[p].action = "error"}
ErrorPrints(i) ==
    {p \in 1..Len(console) :
        console[p].ev = i /\ console[p].line = "Log" /\ console[p].action = "error"}
ErrorRecords(i) == Cardinality(ErrorEntries(i)) + Cardinality(ErrorPrints(i))
ByOriginator(i) ==
    /\ \A p \in ErrorEntries(i) :
          interactions[p].user_id = User(i) /\ interactions[p].data = <<"error_message">>
    /\ \A p \in ErrorPrints(i) :
          console[p].user_id = User(i) /\ console[p].data = <<"error_message">>

(* C11 as stated: every update whose handling raised has one error record  *)
(* against its user.                                                       *)
C11_ErrorEntryWritten ==
    \A i \in 1..Len(tasks) : Failed(i) => ErrorRecords(i) = 1 /\ ByOriginator(i)

(* C11: an update whose handling raised has one console line for the      *)
(* error and one log call for it against its user: a record in the store, *)
(* a printed record when the store is not initialised, or a lost record   *)
(* with the line of the failed write right after the line of the error.   *)
(* An error raised with no update leaves its console line and no record.  *)
(* The updates handled to the end, before or after, got the replies of    *)
(* their branch, every user's flags are what the updates handled so far   *)
(* make them, and with every handler finished the next update is fetched. *)
C11_ErrorHandled ==
    /\ \A i \in 1..Len(tasks) :
          Failed(i) =>
             /\ Cardinality(ErrorLines(i)) = 1
             /\ ByOriginator(i)
             /\ \/ ErrorRecords(i) = 1
                \/ /\ ErrorRecords(i) = 0
                   /\ firebase_initialized
                   /\ \A p \in ErrorLines(i) :
                         /\ p < Len(console)
                         /\ console[p + 1].line = "Logging error"
                         /\ console[p + 1].ev = i
    /\ ErrorRecords(NoEvent) = 0
    /\ \A p \in 1..Len(interactions) : interactions[p].user_id # NoUser
    /\ \A i \in 1..Len(tasks) : tasks[i].pc = "done" => RepliesAsExpected(i)
    /\ \A u \in Users : user_data[u] = Replay(u, Len(tasks))
    /\ (Len(tasks) < Len(events) /\ \A i \in 1..Len(tasks) : tasks[i].pc \in {"done", "failed"})
          => CanFetch(Len(tasks) + 1)

(* the handling of one user's update raised and the error is in the store, *)
(* fetching updates raised too, and the other user's later update was      *)
(* handled to the end                                                      *)
C11_Witness ==
    \E i, j \in 1..Len(tasks) :
        /\ i < j /\ Failed(i) /\ Cardinality(ErrorEntries(i)) = 1
        /\ ErrorLines(NoEvent) # {}
        /\ User(j) # User(i) /\ tasks[j].pc = "done" /\ Len(Replies(j)) >= 1


(* ---------------- the FAQ conversation of a new user ---------------- *)
FaqButton(t) == CASE t = "cyber" -> "faq_cyber" [] t = "fraud" -> "faq_fraud"
FaqConversation(t) ==
    /\ Len(tasks) >= 4
    /\ events[1].kind = "start"
    /\ events[2].kind = "callback" /\ events[2].data = "menu_faq"
    /\ events[3].kind = "callback" /\ events[3].data = FaqButton(t)
    /\ events[4].kind = "text"
    /\ tasks[4].pc = "done"
EntriesOf(i) == LET Of(e) == e.ev = i IN SelectSeq(interactions, Of)

(* C12: when a new user has sent start, pressed menu_faq, pressed the      *)
(* button of a topic and sent one text message, the last reply to that    *)
(* message carries the answer of the FAQ adapter, asked once with that    *)
(* topic, and the single button menu_faq; the message has added two log   *)
(* entries, faq_question and then faq_answer, both with the topic, after  *)
(* the start entry and the two button_click entries.                      *)
C12_FaqEndToEnd ==
    \A t \in Topics :
        FaqConversation(t) =>
            LET R == Replies(4)
                E == EntriesOf(4)
                C == {c \in 1..Len(adapter_calls) : adapter_calls[c].ev = 4}
            IN  /\ Len(R) = 2
                /\ R[2].buttons = <<"menu_faq">>
                /\ \E outcome \in GeminiOutcomes : R[2].text = ask_gemini(t, outcome)
                /\ \A c \in C : Invocations[c] = Call(4, "faq", t)
                /\ Cardinality(C) = 1
                /\ Actions(E) = <<"faq_question", "faq_answer">>
                /\ E[1].data[1] = t /\ E[1].user_id = User(4)
                /\ E[2].data = <<t>> \o R[2].text /\ E[2].user_id = User(4)
                /\ Actions(SubSeq(interactions, 1, 5)) =
                      <<"start", "button_click", "button_click", "faq_question", "faq_answer">>

(* the conversation has taken place and the adapter gave an answer *)
C12_Witness ==
    /\ FaqConversation("fraud")
    /\ Replies(4)[2].text = <<"answer", "fraud">>
    /\ Len(interactions) = 5


(* ---------------- the IP lookup ---------------- *)
BackendOf(i) ==
    LET c == CHOOSE c \in 1..Len(adapter_calls) : adapter_calls[c].ev = i
    IN  adapter_calls[c].backend
IpWellFormed(res) ==
    /\ ~res.raised
    /\ res.status = "success"
    /\ Absent \notin {res.query, res.city, res.regionName, res.country, res.isp}
IpRefused(res) ==
    /\ ~res.raised
    /\ res.status \notin {Absent, "success"}
    /\ res.message # Absent

(* C13: a text message dispatched to the IP lookup never ends in an error: *)
(* its handler goes on to the reply.  Once handled it has one reply, with  *)
(* the single button menu_tools, and the log entries ip_query and          *)
(* ip_result, the latter with the text of the reply.  That text has the    *)
(* query, city, regionName, country and isp of the payload when the        *)
(* backend returned a success payload, the message of the payload when it  *)
(* returned one of another status, and is the fixed failure text when the  *)
(* request raised or the payload lacks a key that is read.                 *)
C13_IpOutcomes ==
    \A i \in 1..Len(tasks) :
        (Dispatched(i) /\ tasks[i].branch = "ip") =>
            /\ tasks[i].pc \in {"reply", "done"}
            /\ Cardinality({c \in 1..Len(adapter_calls) : adapter_calls[c].ev = i}) = 1
            /\ tasks[i].pc = "done" =>
                 LET res == BackendOf(i)
                     R == Replies(i)
                     E == EntriesOf(i)
                 IN  /\ Len(R) = 1
                     /\ R[1].buttons = <<"menu_tools">>
                     /\ Actions(E) = <<"ip_query", "ip_result">>
                     /\ E[2].data = R[1].text
                     /\ IpWellFormed(res) =>
                          R[1].text = <<"ip_info", res.query, res.city, res.regionName,
                                        res.country, res.isp>>
                     /\ IpRefused(res) => R[1].text = <<"ip_error", res.message>>
                     /\ (~IpWellFormed(res) /\ ~IpRefused(res)) => R[1].text = <<"ip_failed">>

(* one lookup answered from a success payload, a later one answered after *)
(* the request raised, and one answered from a payload without its isp     *)
C13_Witness ==
    \E i, j \in 1..Len(tasks) :
        /\ i < j
        /\ Dispatched(i) /\ tasks[i].branch = "ip" /\ tasks[i].pc = "done"
        /\ Dispatched(j) /\ tasks[j].branch = "ip" /\ tasks[j].pc = "done"
        /\ BackendOf(i) = IpSuccess /\ Replies(i)[1].text[3] = "Ashburn"
        /\ BackendOf(j) \in {IpRaised, IpNoIsp} /\ Replies(j)[1].text = <<"ip_failed">>


(* ---------------- the FAQ adapter ---------------- *)
AnswerOf(i) ==
    IF tasks[i].pc = "reply" THEN tasks[i].out.text
    ELSE Replies(i)[Len(Replies(i))].text
Embedded(answer) == SubSeq(answer, 2, Len(answer) - 1)

(* C14: a call of the FAQ adapter, with or without a topic, never ends in *)
(* an error: the handler goes on to its reply with what the adapter       *)
(* returned.  When the backend answered that is the answer for the topic; *)
(* when it raised, it is the degraded message, in which the embedded      *)
(* description is the first ErrCap characters of the description of the   *)
(* error, the whole of it when it is shorter.  The answer entry is logged *)
(* with what the adapter returned, and the handler's last reply is it.    *)
C14_AskNeverRaises ==
    \A c \in 1..Len(adapter_calls) :
        adapter_calls[c].adapter = "faq" =>
            LET i == adapter_calls[c].ev
                b == adapter_calls[c].backend
                topic == adapter_calls[c].topic
                A == AnswerOf(i)
                E == EntriesOf(i)
            IN  /\ tasks[i].pc \in {"reply", "done"}
                /\ b.ok => A = <<"answer", IF topic = NoTopic THEN "general" ELSE topic>>
                /\ ~b.ok =>
                     /\ A[1] = "faq_unavailable"
                     /\ Len(Embedded(A)) <= ErrCap
                     /\ IsPrefix(Embedded(A), b.error)
                     /\ Len(b.error) <= ErrCap => Embedded(A) = b.error
                     /\ Len(b.error) > ErrCap => Len(Embedded(A)) = ErrCap
                /\ Len(E) = 2
                /\ E[2].action = (IF topic = NoTopic THEN "general_answer" ELSE "faq_answer")
                /\ E[2].data = (IF topic = NoTopic THEN A ELSE <<topic>> \o A)

(* a question on a topic and a question on none, both handled to the end  *)
(* although the backend raised, once with a description longer than the   *)
(* cap and once with an empty one                                         *)
C14_Witness ==
    \E c, d \in 1..Len(adapter_calls) :
        /\ adapter_calls[c].topic # NoTopic /\ adapter_calls[d].topic = NoTopic
        /\ tasks[adapter_calls[c].ev].pc = "done" /\ tasks[adapter_calls[d].ev].pc = "done"
        /\ Len(adapter_calls[c].backend.error) > ErrCap
        /\ Len(AnswerOf(adapter_calls[c].ev)) = ErrCap + 2
        /\ ~adapter_calls[d].backend.ok /\ adapter_calls[d].backend.error = <<>>


(* ---------------- start-up ---------------- *)
(* C15: the process serves only with both the token and the API key set.  *)
(* Without the API key it goes from the test call of main to its exit,    *)
(* without the token from building the application to its exit, and in    *)
(* both cases no update is ever received, handled or answered.  Without   *)
(* the database URL the audit store is not initialised and nothing is     *)
(* ever written to it: every log record of an update handled is printed.  *)
C15_StartupConfiguration ==
    /\ phase = "serving" => env.TELEGRAM_TOKEN /\ env.GEMINI_API_KEY
    /\ ~env.GEMINI_API_KEY => phase \in {"import", "main", "exited"}
    /\ ~env.TELEGRAM_TOKEN => phase \in {"import", "main", "build", "exited"}
    /\ ~(env.TELEGRAM_TOKEN /\ env.GEMINI_API_KEY) =>
          events = <<>> /\ tasks = <<>> /\ sent = <<>> /\ adapter_calls = <<>>
    /\ ~env.FIREBASE_DATABASE_URL =>
          /\ ~firebase_initialized
          /\ interactions = <<>>
          /\ \A i \in 1..Len(tasks) :
                tasks[i].pc = "done" =>
                   Printed(i) = (IF events[i].kind = "start" THEN <<"start">>
                                 ELSE <<"general_question", "general_answer">>)

(* without the database URL the process serves: a start command and a     *)
(* question have been answered and their log records printed              *)
C15_Witness ==
    /\ phase = "serving"
    /\ ~env.FIREBASE_DATABASE_URL
    /\ \E i, j \in 1..Len(tasks) :
          /\ tasks[i].pc = "done" /\ Printed(i) = <<"start">> /\ Len(Replies(i)) = 1
          /\ tasks[j].pc = "done" /\ Printed(j) = <<"general_question", "general_answer">>
          /\ Len(Replies(j)) = 2


(* ---------------- adapter calls ---------------- *)
CallsOf(i) == {c \in 1..Len(adapter_calls) : adapter_calls[c].ev = i}
AdapterOf(b) == CASE b = "ip" -> "ip" [] b = "hash" -> "hash" [] OTHER -> "faq"

(* C16: no adapter is ever called for a start command or a button press.  *)
(* For a text message at most one call is ever made; a text message whose *)
(* handler has reached its last reply has exactly one, of the adapter of  *)
(* the branch it was dispatched to.                                       *)
C16_AdapterCallCount ==
    \A i \in 1..Len(tasks) :
        /\ events[i].kind # "text" => CallsOf(i) = {}
        /\ Cardinality(CallsOf(i)) <= 1
        /\ (events[i].kind = "text" /\ tasks[i].pc \in {"reply", "done"}) =>
              /\ Cardinality(CallsOf(i)) = 1
              /\ \A c \in CallsOf(i) :
                    /\ adapter_calls[c].adapter = AdapterOf(tasks[i].branch)
                    /\ adapter_calls[c].topic = tasks[i].topic

(* a button press handled with no adapter call, then a text message of    *)
(* the same user handled with its one call, of the hash check             *)
C16_Witness ==
    \E i, j \in 1..Len(tasks) :
        /\ i < j /\ User(i) = User(j)
        /\ events[i].kind = "callback" /\ tasks[i].pc = "done" /\ CallsOf(i) = {}
        /\ events[j].kind = "text" /\ tasks[j].branch = "hash" /\ tasks[j].pc = "done"
        /\ Cardinality(CallsOf(j)) = 1


(* ---------------- the way back to the main menu ---------------- *)
IsMainMenu(m) == m.text = <<"main_menu">>
LastRender(u) ==
    LET Of(m) == m.user = u
        S == SelectSeq(sent, Of)
    IN  IF S = <<>> THEN NoMsg ELSE S[Len(S)].msg

(* From the buttons last rendered and the flags ud, n user events, each a *)
(* press of a button then on display or a text message, end in a render   *)
(* of the main menu.                                                      *)
RECURSIVE BackToMain(_, _, _)
BackToMain(buttons, ud, n) ==
    IF n = 0 THEN FALSE
    ELSE \/ \E k \in 1..Len(buttons) : IsMainMenu(button_render(buttons[k]))
         \/ \E k \in 1..Len(buttons) :
               /\ button_render(buttons[k]) # NoMsg
               /\ BackToMain(button_render(buttons[k]).buttons,
                             button_effect(ud, buttons[k]), n - 1)
         \/ BackToMain(reply_buttons(dispatch(ud)), consume(ud), n - 1)

(* C17: in every reachable state and for every user, whatever was last    *)
(* rendered to the user and whichever flags are set, at most MaxPath user *)
(* events, each a press of a button then on display or a text message,    *)
(* lead to a render of the main menu; each of the three menus below the   *)
(* main menu has the button back_to_main.                                 *)
C17_NoTerminalState ==
    /\ \A u \in Users :
          \E n \in 1..MaxPath : BackToMain(LastRender(u).buttons, user_data[u], n)
    /\ \A b \in {"menu_faq", "menu_tools", "menu_emergency"} :
          \E k \in 1..Len(button_render(b).buttons) :
             button_render(b).buttons[k] = "back_to_main"

(* the user has a topic pending, the prompt on display has no button, and *)
(* the way back takes three events: a text message, menu_faq, back_to_main *)
C17_Witness ==
    /\ user_data[1].faq_topic # Absent
    /\ LastRender(1).text[1] = "faq_prompt"
    /\ ~BackToMain(LastRender(1).buttons, user_data[1], 2)
    /\ BackToMain(LastRender(1).buttons, user_data[1], 3)


(* ---------------- settings and consumptions of a flag ---------------- *)
FlagBranches == {"faq", "ip", "hash"}
FlagOf(b, ud) ==
    CASE b = "faq" -> ud.faq_topic # Absent
      [] b = "ip" -> ud.awaiting_ip
      [] b = "hash" -> ud.awaiting_hash
SetterOf(b, choice) ==
    CASE b = "faq" -> choice \in FaqTokens
      [] b = "ip" -> choice = "tool_ip"
      [] b = "hash" -> choice = "tool_hash"
Settings(u, b) ==
    Cardinality({i \in 1..Len(tasks) :
        /\ User(i) = u /\ events[i].kind = "callback"
        /\ tasks[i].branch = "clicked" /\ SetterOf(b, events[i].data)})
Consumers(u, b) ==
    Cardinality({i \in 1..Len(tasks) : User(i) = u /\ Dispatched(i) /\ tasks[i].branch = b})
C18_Count == \A u \in Users, b \in FlagBranches : Consumers(u, b) <= Settings(u, b)
C18_Step(i) ==
    (At(i, "typing") /\ tasks'[i].branch \in FlagBranches) =>
        /\ FlagOf(tasks'[i].branch, user_data[User(i)])
        /\ ~FlagOf(tasks'[i].branch, user_data'[User(i)])

(* C18: with the handlers of a user's updates running concurrently, the   *)
(* step of handle_text that finds a flag set and takes its branch is the  *)
(* step that clears the flag, and of each flag a user never has more text *)
(* messages dispatched on it than button presses that set it.             *)
C18_AtomicTakeAndClear ==
    [][C18_Count' /\ \A i \in 1..Len(tasks) : C18_Step(i)]_vars

(* two text messages were being handled at once after one press of        *)
(* tool_hash: the later one took the flag, the earlier one the default     *)
(* branch                                                                 *)
C18_Witness ==
    /\ Len(tasks) >= 3
    /\ events[1].kind = "callback" /\ events[1].data = "tool_hash"
    /\ events[2].kind = "text" /\ tasks[2].branch = "general"
    /\ events[3].kind = "text" /\ tasks[3].branch = "hash"
    /\ Consumers(1, "hash") = 1 /\ Settings(1, "hash") = 1


(* ---------------- what sets and what clears a flag ---------------- *)
RenderOnly(i) ==
    \/ events[i].kind = "start"
    \/ events[i].kind = "callback" /\ events[i].data \in RenderTokens
Stepped(i) == i > Len(tasks) \/ tasks'[i] # tasks[i]
NewlySet(b, ud, ud2) ==
    CASE b = "faq" -> ud2.faq_topic # Absent /\ ud2.faq_topic # ud.faq_topic
      [] b = "ip" -> ud2.awaiting_ip /\ ~ud.awaiting_ip
      [] b = "hash" -> ud2.awaiting_hash /\ ~ud.awaiting_hash
Cleared(b, ud, ud2) == FlagOf(b, ud) /\ ~FlagOf(b, ud2)

(* every step of a handler of a start command or of one of the four menu  *)
(* tokens leaves the flags of every user as they were; a flag is set only *)
(* by a step of the handler of its own button and cleared only by a step  *)
(* of the handler of a text message                                       *)
C19_Step ==
    /\ \A i \in 1..Len(tasks') :
          (Stepped(i) /\ RenderOnly(i)) => user_data' = user_data
    /\ \A u \in Users, b \in FlagBranches :
          /\ NewlySet(b, user_data[u], user_data'[u]) =>
                \E i \in 1..Len(tasks') :
                   /\ Stepped(i) /\ User(i) = u
                   /\ events[i].kind = "callback" /\ SetterOf(b, events[i].data)
          /\ Cleared(b, user_data[u], user_data'[u]) =>
                \E i \in 1..Len(tasks') :
                   Stepped(i) /\ User(i) = u /\ events[i].kind = "text"

(* a flag set by a button press is the flag that the user's next text     *)
(* message is dispatched on when only start commands and menu tokens came *)
(* in between                                                             *)
C19_StillPending ==
    \A i, k \in 1..Len(tasks), b \in FlagBranches :
        ( /\ i < k /\ User(i) = User(k)
          /\ events[i].kind = "callback" /\ SetterOf(b, events[i].data)
          /\ \A j \in (i + 1)..(k - 1) : User(j) = User(i) => RenderOnly(j)
          /\ Dispatched(k) )
        => tasks[k].branch = b

(* the frame alone: what changes a flag, and what does not *)
C19_Frame == [][C19_Step]_vars

(* C19: the start command and the tokens menu_faq, menu_tools,            *)
(* menu_emergency and back_to_main change no flag of any user; a flag is  *)
(* set only by its own button (faq_<topic>, tool_ip, tool_hash) and       *)
(* cleared only by a text message; a flag set before such navigation is   *)
(* consumed by the user's next text message.                              *)
C19_RenderOnlyFrame == [][C19_Step /\ C19_StillPending']_vars

(* tool_ip, then back_to_main and the start command, both handled with    *)
(* awaiting_ip still set, then a text message dispatched to the IP lookup *)
C19_Witness ==
    /\ Len(tasks) = 4
    /\ events[1].kind = "callback" /\ events[1].data = "tool_ip"
    /\ events[2].kind = "callback" /\ events[2].data = "back_to_main" /\ tasks[2].pc = "done"
    /\ events[3].kind = "start" /\ tasks[3].pc = "done"
    /\ events[4].kind = "text" /\ tasks[4].branch = "ip" /\ tasks[4].pc = "done"
    /\ ~user_data[1].awaiting_ip


(* ---------------- a fault after the flag was consumed ---------------- *)
Faulted(i) == tasks[i].pc \notin Finished /\ tasks'[i].pc = "failed"
C20_Step(i) ==
    (* the step in which the handling of events[i] fails *)
    /\ Faulted(i) =>
          /\ user_data' = user_data
          /\ tasks'[i].branch = tasks[i].branch
          /\ \E p \in 1..Len(console') :
                /\ p > Len(console)
                /\ console'[p].line = "Error" /\ console'[p].ev = i
          /\ \/ /\ Len(interactions') = Len(interactions) + 1
                /\ interactions'[Len(interactions')] =
                      Entry(User(i), "error", <<"error_message">>, i)
             \/ /\ interactions' = interactions
                /\ console'[Len(console')].line \in {"Log", "Logging error"}
                /\ console'[Len(console')].ev = i
    (* the step in which a text message is dispatched *)
    /\ (At(i, "typing") /\ tasks'[i].branch \in TextBranches) =>
          /\ tasks'[i].branch = dispatch(Replay(User(i), i - 1))
          /\ user_data'[User(i)] = consume(Replay(User(i), i - 1))

(* C20: the step in which the handling of an update fails leaves every    *)
(* flag as it is, a flag consumed by the failed handler included, and     *)
(* error_handler prints the fault and makes its log call for it (an entry *)
(* in the store, or a line on the console when the store is not           *)
(* initialised or the write fails); each text message is dispatched on the *)
(* flags as the presses and the text messages dispatched before it have   *)
(* left them, whether or not the handling of those went on to its end.    *)
C20_NoRollback == [][\A i \in 1..Len(tasks) : C20_Step(i)]_vars

(* a topic and then tool_hash were chosen; the question on the topic was  *)
(* put to the adapter and its handler failed at the last reply; the next  *)
(* text message went to the hash check with the topic still cleared       *)
C20_Witness ==
    /\ Len(tasks) = 4
    /\ events[1].data = "faq_cyber" /\ events[2].data = "tool_hash"
    /\ tasks[3].branch = "faq" /\ tasks[3].pc = "failed" /\ AdapterCalled(3)
    /\ Cardinality(ErrorLines(3)) = 1 /\ Cardinality(ErrorEntries(3)) = 1
    /\ tasks[4].branch = "hash" /\ tasks[4].pc = "done"
    /\ user_data[1] = EmptyUserData
====
